---- MODULE Spec2Model ----
(***************************************************************************)
(* Model of src/components/Visualizations.tsx: the Visualizations React    *)
(* component.  The application state (props.state), the selected period,   *)
(* the memoized derivations (useMemo chain, lines 162-259) and the four    *)
(* commentary panels with their asynchronous text-generation calls         *)
(* (useEffect blocks, lines 262-399).                                      *)
(*                                                                         *)
(* Encodings.  An instant is a record [y, m, d, h] (UTC civil time, hour   *)
(* resolution).  The ISO year-month key "YYYY-MM" is the number            *)
(* y * 100 + m, the 'fr-CA' local date "YYYY-MM-DD" is the number          *)
(* y * 10000 + m * 100 + d; for four-digit years the string order of the   *)
(* keys is the numeric order.  The period sentinel 'all' is the key 0.     *)
(***************************************************************************)
EXTENDS Integers, Sequences, FiniteSets, Bags, TLC

VARIABLES
    state,                \* props.state: archives, fundHistory, budgets, dailyExpenses
    selectedMonth,        \* useState, line 140
    now,                  \* the real-world instant new Date() returns (UTC)
    tz,                   \* the caller's local UTC offset, in hours
    allExpenses,          \* useMemo, lines 162-171
    monthOptions,         \* useMemo, lines 173-180
    filteredExpenses,     \* useMemo, lines 182-186
    totalIncomeForMonth,  \* useMemo, lines 188-195
    pieChartData,         \* useMemo, lines 198-211
    trendData,            \* useMemo, lines 222-244
    budgetComparisonData, \* useMemo, lines 246-259
    trendPanel,           \* trendAnalysis, isFetchingTrend, trendError
    budgetPanel,          \* budgetAnalysis, isFetchingBudget, budgetError
    piePanel,             \* pieAnalysis, isFetchingPie, pieError
    forecastPanel,        \* aiForecast, isFetchingForecast, forecastError
    forecastBranch,       \* the return point the last fetchForecast run took
    pending,              \* bag of generateContent calls in flight
    detailModalData       \* useState, line 141: the detail list the modal shows

memoVars  == <<allExpenses, monthOptions, filteredExpenses, totalIncomeForMonth,
               pieChartData, trendData, budgetComparisonData>>
panelVars == <<trendPanel, budgetPanel, piePanel, forecastPanel, forecastBranch, pending>>
vars      == <<state, selectedMonth, now, tz, memoVars, panelVars, detailModalData>>

----------------------------------------------------------------------------
(* Bounds of the model.                                                    *)

MaxRecords == 3       \* entries the application state may hold (derivation runs)
MaxEntries == 2       \* entries the application state may hold (component runs)
MaxPending == 3       \* generateContent calls in flight at once

----------------------------------------------------------------------------
(* Calendar: what the JavaScript Date built-in computes.                   *)

all == 0

IsLeap(y) == (y % 4 = 0 /\ y % 100 # 0) \/ y % 400 = 0

MonthLength(y, m) ==
    IF m = 2 THEN (IF IsLeap(y) THEN 29 ELSE 28)
    ELSE IF m \in {4, 6, 9, 11} THEN 30 ELSE 31

\* new Date(year, monthIndex, day): monthIndex is zero-based and may be 12,
\* day may be 0 (the last day of the month before).  Result as [y, m, d], m in 1..12.
DateCtor(year, monthIndex, day) ==
    LET y1 == IF monthIndex >= 12 THEN year + 1 ELSE year
        m1 == IF monthIndex >= 12 THEN monthIndex - 12 + 1 ELSE monthIndex + 1
    IN  IF day >= 1 THEN [y |-> y1, m |-> m1, d |-> day]
        ELSE IF m1 = 1 THEN [y |-> y1 - 1, m |-> 12, d |-> MonthLength(y1 - 1, 12) + day]
        ELSE [y |-> y1, m |-> m1 - 1, d |-> MonthLength(y1, m1 - 1) + day]

\* The local civil time of instant t for a caller at UTC offset off (|off| < 24).
LocalTime(t, off) ==
    LET hh == t.h + off
    IN  IF hh >= 24 THEN
            IF t.d < MonthLength(t.y, t.m) THEN [y |-> t.y, m |-> t.m, d |-> t.d + 1, h |-> hh - 24]
            ELSE IF t.m < 12 THEN [y |-> t.y, m |-> t.m + 1, d |-> 1, h |-> hh - 24]
            ELSE [y |-> t.y + 1, m |-> 1, d |-> 1, h |-> hh - 24]
        ELSE IF hh < 0 THEN
            IF t.d > 1 THEN [y |-> t.y, m |-> t.m, d |-> t.d - 1, h |-> hh + 24]
            ELSE IF t.m > 1 THEN [y |-> t.y, m |-> t.m - 1, d |-> MonthLength(t.y, t.m - 1), h |-> hh + 24]
            ELSE [y |-> t.y - 1, m |-> 12, d |-> 31, h |-> hh + 24]
        ELSE [y |-> t.y, m |-> t.m, d |-> t.d, h |-> hh]

\* new Date(t).toISOString().slice(0, 7)
IsoMonth(t) == t.y * 100 + t.m

\* new Date(t).toISOString().slice(0, 10): the UTC calendar date
IsoDate(t) == t.y * 10000 + t.m * 100 + t.d

\* new Date(t).toLocaleDateString('fr-CA'): the caller's local calendar date
LocaleDate(t, off) == IsoDate(LocalTime(t, off))

\* Number(selectedMonth.slice(0, 4)) and Number(selectedMonth.slice(5, 7))
KeyYear(key)  == key \div 100
KeyMonth(key) == key % 100

----------------------------------------------------------------------------
(* Sequence helpers: Array.prototype.filter / reduce / sort / reverse.     *)

RECURSIVE SumAmount(_)
SumAmount(s) == IF s = <<>> THEN 0 ELSE Head(s).amount + SumAmount(Tail(s))

RECURSIVE Flatten(_)
Flatten(ss) == IF ss = <<>> THEN <<>> ELSE Head(ss) \o Flatten(Tail(ss))

Reverse(s) == [i \in 1..Len(s) |-> s[Len(s) + 1 - i]]

\* new Set(keys): the distinct keys in first-seen order
RECURSIVE Distinct(_)
Distinct(s) ==
    IF s = <<>> THEN <<>>
    ELSE LET r == Distinct(SubSeq(s, 1, Len(s) - 1))
             x == s[Len(s)]
         IN  IF \E i \in 1..Len(r) : r[i] = x THEN r ELSE Append(r, x)

\* Array.prototype.sort is stable: x goes before the first element that the
\* comparator orders strictly after it.  The elements come with the key the
\* comparator subtracts: cmp(a, b) = a.key - b.key.
RECURSIVE InsertSorted(_, _)
InsertSorted(s, x) ==
    IF s = <<>> THEN <<x>>
    ELSE IF x.key - Head(s).key < 0 THEN <<x>> \o s
    ELSE <<Head(s)>> \o InsertSorted(Tail(s), x)

RECURSIVE SortKeyed(_)
SortKeyed(s) ==
    IF s = <<>> THEN <<>>
    ELSE InsertSorted(SortKeyed(SubSeq(s, 1, Len(s) - 1)), s[Len(s)])

\* The sorted items, the keys dropped
Items(keyed) == [i \in 1..Len(keyed) |-> keyed[i].item]

----------------------------------------------------------------------------
(* The memoized derivations.                                               *)

\* GlobalTransaction as the engine reads it
Txn(type, timestamp, amount, category) ==
    [type |-> type, timestamp |-> timestamp, amount |-> amount, category |-> category]

\* allExpenses keeping only the budget history entries whose raw type is 'remove'
NormalizeLedger_TrustsRawType(st) ==
    LET removed      == SelectSeq(st.fundHistory, LAMBDA t : t.type = "remove")
        fromArchives == Flatten([a \in 1..Len(st.archives) |->
                            SelectSeq(st.archives[a], LAMBDA t : t.type = "remove")])
        fromFund     == [i \in 1..Len(removed) |->
                            Txn(removed[i].type, removed[i].timestamp, removed[i].amount,
                                "Pengeluaran Umum")]
        fromBudgets  == Flatten([b \in 1..Len(st.budgets) |->
                            LET spent == SelectSeq(st.budgets[b].history,
                                                   LAMBDA h : h.type = "remove")
                            IN  [h \in 1..Len(spent) |->
                                    Txn("remove", spent[h].timestamp, spent[h].amount,
                                        st.budgets[b].name)]])
        fromDaily    == [i \in 1..Len(st.dailyExpenses) |->
                            Txn("remove", st.dailyExpenses[i].timestamp, st.dailyExpenses[i].amount,
                                IF st.dailyExpenses[i].sourceCategory # ""
                                THEN st.dailyExpenses[i].sourceCategory ELSE "Harian")]
    IN  fromArchives \o fromFund \o fromBudgets \o fromDaily

\* allExpenses, lines 162-171
NormalizeLedger(st) ==
    LET removed      == SelectSeq(st.fundHistory, LAMBDA t : t.type = "remove")
        fromArchives == Flatten([a \in 1..Len(st.archives) |->
                            SelectSeq(st.archives[a], LAMBDA t : t.type = "remove")])
        fromFund     == [i \in 1..Len(removed) |->
                            Txn(removed[i].type, removed[i].timestamp, removed[i].amount,
                                "Pengeluaran Umum")]
        fromBudgets  == Flatten([b \in 1..Len(st.budgets) |->
                            [h \in 1..Len(st.budgets[b].history) |->
                                Txn("remove", st.budgets[b].history[h].timestamp,
                                    st.budgets[b].history[h].amount, st.budgets[b].name)]])
        fromDaily    == [i \in 1..Len(st.dailyExpenses) |->
                            Txn("remove", st.dailyExpenses[i].timestamp, st.dailyExpenses[i].amount,
                                IF st.dailyExpenses[i].sourceCategory # ""
                                THEN st.dailyExpenses[i].sourceCategory ELSE "Harian")]
    IN  fromArchives \o fromFund \o fromBudgets \o fromDaily

\* monthOptions with the final reverse() left out
MonthOptionsOf_Ascending(ledger, today) ==
    LET keys    == Distinct([i \in 1..Len(ledger) |-> IsoMonth(ledger[i].timestamp)])
        options == IF Len(keys) = 0 THEN <<IsoMonth(today)>> ELSE keys
    IN  <<all>> \o Items(SortKeyed([i \in 1..Len(options) |->
                                      [key |-> options[i], item |-> options[i]]]))

\* monthOptions, lines 173-180
MonthOptionsOf(ledger, today) ==
    LET keys    == Distinct([i \in 1..Len(ledger) |-> IsoMonth(ledger[i].timestamp)])
        options == IF Len(keys) = 0 THEN <<IsoMonth(today)>> ELSE keys
    IN  <<all>> \o Reverse(Items(SortKeyed([i \in 1..Len(options) |->
                                              [key |-> options[i], item |-> options[i]]])))

\* filteredExpenses comparing only the year of the key (prefix of 4 characters)
FilterExpenses_YearOnly(ledger, month) ==
    IF month = all THEN ledger
    ELSE SelectSeq(ledger, LAMBDA e : KeyYear(IsoMonth(e.timestamp)) = KeyYear(month))

\* filteredExpenses, lines 182-186
FilterExpenses(ledger, month) ==
    IF month = all THEN ledger
    ELSE SelectSeq(ledger, LAMBDA e : IsoMonth(e.timestamp) = month)

\* totalIncomeForMonth without the early return for 'all'
TotalIncome_NoAllGuard(fundHistory, month) ==
    SumAmount(SelectSeq(fundHistory,
        LAMBDA t : t.type = "add" /\ (month = all \/ IsoMonth(t.timestamp) = month)))

\* totalIncomeForMonth, lines 188-195
TotalIncome(fundHistory, month) ==
    IF month = all THEN 0
    ELSE SumAmount(SelectSeq(fundHistory,
            LAMBDA t : t.type = "add" /\ IsoMonth(t.timestamp) = month))

\* the category read without its '|| fallback'
ResolveCategory_Raw(c) == c

\* expense.category || 'Lain-lain', lines 201, 217, 249
ResolveCategory(c) == IF c # "" THEN c ELSE "Lain-lain"

\* expenseByCategory, lines 199-206 and 247-252: entries in first-seen order
RECURSIVE ExpenseByCategory(_)
ExpenseByCategory(expenses) ==
    IF expenses = <<>> THEN <<>>
    ELSE LET acc == ExpenseByCategory(SubSeq(expenses, 1, Len(expenses) - 1))
             e   == expenses[Len(expenses)]
             cat == ResolveCategory(e.category)
         IN  IF \E i \in 1..Len(acc) : acc[i].name = cat
             THEN [i \in 1..Len(acc) |->
                     IF acc[i].name = cat
                     THEN [name |-> cat, value |-> acc[i].value + e.amount]
                     ELSE acc[i]]
             ELSE Append(acc, [name |-> cat, value |-> 0 + e.amount])

\* expenseByCategory[key] || 0
Lookup(table, key) ==
    IF \E i \in 1..Len(table) : table[i].name = key
    THEN (CHOOSE e \in {table[i] : i \in 1..Len(table)} : e.name = key).value
    ELSE 0

\* pieChartData sorted with the comparator's operands swapped (a.value - b.value)
PieChartDataOf_Ascending(expenses) ==
    LET entries == ExpenseByCategory(expenses)
    IN  Items(SortKeyed([i \in 1..Len(entries) |->
                            [key |-> entries[i].value, item |-> entries[i]]]))

\* pieChartData, lines 198-211
PieChartDataOf(expenses) ==
    LET entries == ExpenseByCategory(expenses)
    IN  Items(SortKeyed([i \in 1..Len(entries) |->
                            [key |-> 0 - entries[i].value, item |-> entries[i]]]))

\* dailyTotals, lines 225-232: date key -> total, keyed by the local date string
RECURSIVE DailyTotals(_, _)
DailyTotals(expenses, off) ==
    IF expenses = <<>> THEN <<>>
    ELSE LET acc  == DailyTotals(SubSeq(expenses, 1, Len(expenses) - 1), off)
             e    == expenses[Len(expenses)]
             date == LocaleDate(e.timestamp, off)
         IN  IF \E i \in 1..Len(acc) : acc[i].name = date
             THEN [i \in 1..Len(acc) |->
                     IF acc[i].name = date
                     THEN [name |-> date, value |-> acc[i].value + e.amount]
                     ELSE acc[i]]
             ELSE Append(acc, [name |-> date, value |-> 0 + e.amount])

\* daysInMonth with the month taken as a zero-based index
DaysInMonth_ZeroBasedMonth(month) == DateCtor(KeyYear(month), KeyMonth(month) - 1, 0).d

\* daysInMonth, line 234 (and totalDaysInMonth, line 359)
DaysInMonth(month) == DateCtor(KeyYear(month), KeyMonth(month), 0).d

\* trendData, lines 222-244
TrendDataOf(expenses, month, off) ==
    IF month = all THEN <<>>
    ELSE LET dailyTotals == DailyTotals(expenses, off)
         IN  [i \in 1..DaysInMonth(month) |->
                [day |-> i, total |-> Lookup(dailyTotals, month * 100 + i)]]

\* budgetComparisonData built from the categories that have spend (an inner join)
BudgetComparisonOf_InnerJoin(expenses, budgets) ==
    LET expenseByCategory == ExpenseByCategory(expenses)
        spent == SelectSeq(budgets, LAMBDA b : Lookup(expenseByCategory, b.name) # 0)
    IN  [i \in 1..Len(spent) |->
            [name |-> spent[i].name, Dianggarkan |-> spent[i].totalBudget,
             Terpakai |-> Lookup(expenseByCategory, spent[i].name)]]

\* budgetComparisonData, lines 246-259
BudgetComparisonOf(expenses, budgets) ==
    LET expenseByCategory == ExpenseByCategory(expenses)
    IN  [i \in 1..Len(budgets) |->
            [name |-> budgets[i].name, Dianggarkan |-> budgets[i].totalBudget,
             Terpakai |-> Lookup(expenseByCategory, budgets[i].name)]]

\* One evaluation of the component body (lines 162-259) for props st and
\* selected period month: the values of the seven memos.
View(st, month, today, off) ==
    LET ledger   == NormalizeLedger(st)
        filtered == FilterExpenses(ledger, month)
    IN  [allExpenses          |-> ledger,
         monthOptions         |-> MonthOptionsOf(ledger, today),
         filteredExpenses     |-> filtered,
         totalIncomeForMonth  |-> TotalIncome(st.fundHistory, month),
         pieChartData         |-> PieChartDataOf(filtered),
         trendData            |-> TrendDataOf(filtered, month, off),
         budgetComparisonData |-> BudgetComparisonOf(filtered, st.budgets)]

Render(v) ==
    /\ allExpenses' = v.allExpenses
    /\ monthOptions' = v.monthOptions
    /\ filteredExpenses' = v.filteredExpenses
    /\ totalIncomeForMonth' = v.totalIncomeForMonth
    /\ pieChartData' = v.pieChartData
    /\ trendData' = v.trendData
    /\ budgetComparisonData' = v.budgetComparisonData

----------------------------------------------------------------------------
(* The commentary panels and their effects.                                *)

\* What a panel shows: null, one of the fixed messages, or response.text of
\* the generateContent call whose prompt carried the data `about`.
NoText       == [kind |-> "null", msg |-> "", about |-> <<>>]
Message(m)   == [kind |-> "msg", msg |-> m, about |-> <<>>]
TextFor(data) == [kind |-> "text", msg |-> "", about |-> data]

\* useState(null), useState(false), useState(null): lines 144-159; error "" is null
BlankPanel == [analysis |-> NoText, isFetching |-> FALSE, error |-> ""]

Call(panel, data) == [panel |-> panel, payload |-> data]

\* fetchAnalysis of the trend panel up to its await, lines 263-274.
\* Result: the panel after the synchronous setState calls, and the calls issued.
fetchTrendAnalysis(panel, trend) ==
    IF \A i \in 1..Len(trend) : trend[i].total = 0
    THEN [panel |-> [panel EXCEPT !.analysis =
                        Message("Tidak ada data pengeluaran untuk dianalisis pada periode ini.")],
          calls |-> <<>>]
    ELSE [panel |-> [panel EXCEPT !.isFetching = TRUE, !.error = ""],
          calls |-> <<Call("trend", SelectSeq(trend, LAMBDA d : d.total > 0))>>]

\* fetchAnalysis of the budget panel up to its await, lines 287-298
fetchBudgetAnalysis(panel, comparison) ==
    IF Len(comparison) = 0
    THEN [panel |-> [panel EXCEPT !.analysis =
                        Message("Tidak ada pos anggaran untuk dibandingkan.")],
          calls |-> <<>>]
    ELSE [panel |-> [panel EXCEPT !.isFetching = TRUE, !.error = ""],
          calls |-> <<Call("budget", comparison)>>]

\* fetchAnalysis of the pie panel up to its await, lines 311-322
fetchPieAnalysis(panel, pie) ==
    IF Len(pie) = 0
    THEN [panel |-> [panel EXCEPT !.analysis =
                        Message("Tidak ada data pengeluaran untuk dianalisis pada periode ini.")],
          calls |-> <<>>]
    ELSE [panel |-> [panel EXCEPT !.isFetching = TRUE, !.error = ""],
          calls |-> <<Call("pie", pie)>>]

\* The numbers the forecast prompt interpolates, lines 374-377
ForecastPrompt(income, expensesSoFar, daysPassed, totalDays) ==
    <<[name |-> "totalIncomeForMonth", value |-> income],
      [name |-> "totalExpensesSoFar",  value |-> expensesSoFar],
      [name |-> "daysPassed",          value |-> daysPassed],
      [name |-> "totalDaysInMonth",    value |-> totalDays]>>

\* fetchForecast testing the spend before the income
fetchForecast_SpendBeforeIncome(panel, month, today, income, expenses) ==
    IF month = all
    THEN [panel |-> [panel EXCEPT !.analysis = NoText], calls |-> <<>>, branch |-> "allTime"]
    ELSE
    LET year           == KeyYear(month)
        monthIndex     == KeyMonth(month) - 1
        isCurrentMonth == today.y = year /\ today.m - 1 = monthIndex
        totalExpensesSoFar == SumAmount(expenses)
    IN  IF ~isCurrentMonth
        THEN [panel |-> [panel EXCEPT !.analysis =
                            Message("Prediksi hanya tersedia untuk bulan berjalan.")],
              calls |-> <<>>, branch |-> "notCurrentMonth"]
        ELSE IF totalExpensesSoFar = 0
        THEN [panel |-> [analysis |-> Message("Belum ada pengeluaran. Anda di jalur yang tepat untuk berhemat!"),
                         isFetching |-> FALSE, error |-> ""],
              calls |-> <<>>, branch |-> "ZeroSpend"]
        ELSE IF income = 0
        THEN [panel |-> [panel EXCEPT !.analysis =
                            Message("Tambahkan pemasukan bulan ini untuk melihat prediksi.")],
              calls |-> <<>>, branch |-> "noIncome"]
        ELSE [panel |-> [panel EXCEPT !.isFetching = TRUE, !.error = ""],
              calls |-> <<Call("forecast",
                          ForecastPrompt(income, totalExpensesSoFar, today.d,
                                         DateCtor(year, monthIndex + 1, 0).d))>>,
              branch |-> "Computed"]

\* fetchForecast taking the days of the month from new Date(year, month, 0)
fetchForecast_DaysOfMonthBefore(panel, month, today, income, expenses) ==
    IF month = all
    THEN [panel |-> [panel EXCEPT !.analysis = NoText], calls |-> <<>>, branch |-> "allTime"]
    ELSE
    LET year           == KeyYear(month)
        monthIndex     == KeyMonth(month) - 1
        isCurrentMonth == today.y = year /\ today.m - 1 = monthIndex
        totalExpensesSoFar == SumAmount(expenses)
    IN  IF ~isCurrentMonth
        THEN [panel |-> [panel EXCEPT !.analysis =
                            Message("Prediksi hanya tersedia untuk bulan berjalan.")],
              calls |-> <<>>, branch |-> "notCurrentMonth"]
        ELSE IF income = 0
        THEN [panel |-> [panel EXCEPT !.analysis =
                            Message("Tambahkan pemasukan bulan ini untuk melihat prediksi.")],
              calls |-> <<>>, branch |-> "noIncome"]
        ELSE IF totalExpensesSoFar = 0
        THEN [panel |-> [analysis |-> Message("Belum ada pengeluaran. Anda di jalur yang tepat untuk berhemat!"),
                         isFetching |-> FALSE, error |-> ""],
              calls |-> <<>>, branch |-> "ZeroSpend"]
        ELSE [panel |-> [panel EXCEPT !.isFetching = TRUE, !.error = ""],
              calls |-> <<Call("forecast",
                          ForecastPrompt(income, totalExpensesSoFar, today.d,
                                         DateCtor(year, monthIndex, 0).d))>>,
              branch |-> "Computed"]

\* fetchForecast up to its await, lines 335-387.  today is new Date() as the
\* caller's local civil time (getFullYear, getMonth, getDate are local).
fetchForecast(panel, month, today, income, expenses) ==
    IF month = all
    THEN [panel |-> [panel EXCEPT !.analysis = NoText], calls |-> <<>>, branch |-> "allTime"]
    ELSE
    LET year           == KeyYear(month)
        monthIndex     == KeyMonth(month) - 1
        isCurrentMonth == today.y = year /\ today.m - 1 = monthIndex
    IN  IF ~isCurrentMonth
        THEN [panel |-> [panel EXCEPT !.analysis =
                            Message("Prediksi hanya tersedia untuk bulan berjalan.")],
              calls |-> <<>>, branch |-> "notCurrentMonth"]
        ELSE IF income = 0
        THEN [panel |-> [panel EXCEPT !.analysis =
                            Message("Tambahkan pemasukan bulan ini untuk melihat prediksi.")],
              calls |-> <<>>, branch |-> "noIncome"]
        ELSE
        LET daysPassed         == today.d
            totalDaysInMonth   == DateCtor(year, monthIndex + 1, 0).d
            totalExpensesSoFar == SumAmount(expenses)
        IN  IF totalExpensesSoFar = 0
            THEN [panel |-> [analysis |-> Message("Belum ada pengeluaran. Anda di jalur yang tepat untuk berhemat!"),
                             isFetching |-> FALSE, error |-> ""],
                  calls |-> <<>>, branch |-> "ZeroSpend"]
            ELSE [panel |-> [panel EXCEPT !.isFetching = TRUE, !.error = ""],
                  calls |-> <<Call("forecast",
                              ForecastPrompt(income, totalExpensesSoFar, daysPassed, totalDaysInMonth))>>,
                  branch |-> "Computed"]

RECURSIVE SeqToBag(_)
SeqToBag(s) == IF s = <<>> THEN EmptyBag ELSE SetToBag({Head(s)}) (+) SeqToBag(Tail(s))

\* The four effects (lines 262-399) run after a render that produced view v.
RunEffects(tp, bp, pp, fp, v, month, today, off) ==
    LET t == fetchTrendAnalysis(tp, v.trendData)
        b == fetchBudgetAnalysis(bp, v.budgetComparisonData)
        p == fetchPieAnalysis(pp, v.pieChartData)
        f == fetchForecast(fp, month, LocalTime(today, off),
                           v.totalIncomeForMonth, v.filteredExpenses)
    IN  [trend |-> t.panel, budget |-> b.panel, pie |-> p.panel, forecast |-> f.panel,
         branch |-> f.branch, calls |-> t.calls \o b.calls \o p.calls \o f.calls]

InFlight(panel) == {c \in BagToSet(pending) : c.panel = panel}

\* Number of calls of one panel in flight
CountInFlight(bag, panel) ==
    BagCardinality([c \in {x \in BagToSet(bag) : x.panel = panel} |-> bag[c]])

Panels == {"trend", "budget", "pie", "forecast"}

\* A change of props.state or of selectedMonth: re-render, then the effects
\* whose dependencies changed (all of them: every memo is recomputed).
\* effects = FALSE stops after the render (the derivation layer on its own).
Update(st, month, effects) ==
    LET v == View(st, month, now, tz)
        r == RunEffects(trendPanel, budgetPanel, piePanel, forecastPanel, v, month, now, tz)
    IN  /\ state' = st
        /\ selectedMonth' = month
        /\ Render(v)
        /\ UNCHANGED <<now, tz, detailModalData>>
        /\ IF effects
           THEN /\ trendPanel' = r.trend
                /\ budgetPanel' = r.budget
                /\ piePanel' = r.pie
                /\ forecastPanel' = r.forecast
                /\ forecastBranch' = r.branch
                /\ pending' = pending (+) SeqToBag(r.calls)
                /\ BagCardinality(pending') <= MaxPending
           ELSE UNCHANGED panelVars

----------------------------------------------------------------------------
(* Changes of the application state, made by the store outside the         *)
(* component and handed in as a new props.state (line 139).                *)

EmptyState == [archives |-> <<>>, fundHistory |-> <<>>, budgets |-> <<>>, dailyExpenses |-> <<>>]

RECURSIVE SumLen(_)
SumLen(ss) == IF ss = <<>> THEN 0 ELSE Len(Head(ss)) + SumLen(Tail(ss))

\* Number of entries the application state holds
Size(st) ==
    SumLen(st.archives) + Len(st.fundHistory) + Len(st.budgets)
    + SumLen([b \in 1..Len(st.budgets) |-> st.budgets[b].history]) + Len(st.dailyExpenses)

ArchiveBatch(batch, effects) ==
    Update([state EXCEPT !.archives = Append(@, batch)], selectedMonth, effects)

FundEntry(entry, effects) ==
    Update([state EXCEPT !.fundHistory = Append(@, entry)], selectedMonth, effects)

BudgetAdded(name, total, effects) ==
    /\ \A i \in 1..Len(state.budgets) : state.budgets[i].name # name
    /\ Update([state EXCEPT !.budgets =
                  Append(@, [name |-> name, totalBudget |-> total, history |-> <<>>])],
              selectedMonth, effects)

BudgetSpend(i, entry, effects) ==
    /\ i \in 1..Len(state.budgets)
    /\ Update([state EXCEPT !.budgets[i].history = Append(@, entry)], selectedMonth, effects)

DailyExpense(entry, effects) ==
    Update([state EXCEPT !.dailyExpenses = Append(@, entry)], selectedMonth, effects)

\* onChange of the period <select>, lines 422-428
SelectMonth(month, effects) ==
    /\ \E i \in 1..Len(monthOptions) : monthOptions[i] = month
    /\ month # selectedMonth
    /\ Update(state, month, effects)

\* generateContent resolves: lines 275 / 299 / 323 / 388, then the finally block
Resolve(c) ==
    /\ c \in BagToSet(pending)
    /\ pending' = pending (-) SetToBag({c})
    /\ trendPanel' = IF c.panel = "trend"
                     THEN [trendPanel EXCEPT !.analysis = TextFor(c.payload), !.isFetching = FALSE]
                     ELSE trendPanel
    /\ budgetPanel' = IF c.panel = "budget"
                      THEN [budgetPanel EXCEPT !.analysis = TextFor(c.payload), !.isFetching = FALSE]
                      ELSE budgetPanel
    /\ piePanel' = IF c.panel = "pie"
                   THEN [piePanel EXCEPT !.analysis = TextFor(c.payload), !.isFetching = FALSE]
                   ELSE piePanel
    /\ forecastPanel' = IF c.panel = "forecast"
                        THEN [forecastPanel EXCEPT !.analysis = TextFor(c.payload), !.isFetching = FALSE]
                        ELSE forecastPanel
    /\ UNCHANGED <<state, selectedMonth, now, tz, memoVars, forecastBranch, detailModalData>>

\* The catch block writing one error state shared by the four panels
Reject_SharedError(c) ==
    /\ c \in BagToSet(pending)
    /\ pending' = pending (-) SetToBag({c})
    /\ trendPanel' = [trendPanel EXCEPT !.error = "Gagal mendapatkan analisis AI.",
                                        !.isFetching = IF c.panel = "trend" THEN FALSE ELSE @]
    /\ budgetPanel' = [budgetPanel EXCEPT !.error = "Gagal mendapatkan analisis AI.",
                                          !.isFetching = IF c.panel = "budget" THEN FALSE ELSE @]
    /\ piePanel' = [piePanel EXCEPT !.error = "Gagal mendapatkan analisis AI.",
                                    !.isFetching = IF c.panel = "pie" THEN FALSE ELSE @]
    /\ forecastPanel' = [forecastPanel EXCEPT !.error = "Gagal mendapatkan prediksi AI.",
                                              !.isFetching = IF c.panel = "forecast" THEN FALSE ELSE @]
    /\ UNCHANGED <<state, selectedMonth, now, tz, memoVars, forecastBranch, detailModalData>>

\* generateContent rejects: the catch blocks, lines 276-281 / 300-305 / 324-329 / 390-395
Reject(c) ==
    /\ c \in BagToSet(pending)
    /\ pending' = pending (-) SetToBag({c})
    /\ trendPanel' = IF c.panel = "trend"
                     THEN [trendPanel EXCEPT !.error = "Gagal mendapatkan analisis AI.", !.isFetching = FALSE]
                     ELSE trendPanel
    /\ budgetPanel' = IF c.panel = "budget"
                      THEN [budgetPanel EXCEPT !.error = "Gagal mendapatkan analisis AI.", !.isFetching = FALSE]
                      ELSE budgetPanel
    /\ piePanel' = IF c.panel = "pie"
                   THEN [piePanel EXCEPT !.error = "Gagal mendapatkan analisis AI.", !.isFetching = FALSE]
                   ELSE piePanel
    /\ forecastPanel' = IF c.panel = "forecast"
                        THEN [forecastPanel EXCEPT !.error = "Gagal mendapatkan prediksi AI.", !.isFetching = FALSE]
                        ELSE forecastPanel
    /\ UNCHANGED <<state, selectedMonth, now, tz, memoVars, forecastBranch, detailModalData>>

----------------------------------------------------------------------------
(* The transaction detail modal.                                           *)

\* detailModalData === null, line 141
NoDetail == [open |-> FALSE, category |-> "", transactions |-> <<>>]

\* handlePieClick with the sort applied to filteredExpenses itself, before the filter
handlePieClick_SortsInPlace(expenses, detail, name) ==
    IF name = "" THEN [detailModalData |-> detail, filteredExpenses |-> expenses]
    ELSE LET sorted   == Items(SortKeyed([i \in 1..Len(expenses) |->
                             [key |-> 0 - expenses[i].amount, item |-> expenses[i]]]))
             matching == SelectSeq(sorted, LAMBDA e : ResolveCategory(e.category) = name)
         IN  [detailModalData  |-> [open |-> TRUE, category |-> name, transactions |-> matching],
              filteredExpenses |-> sorted]

\* handlePieClick, lines 213-220: the detailModalData it sets and the
\* filteredExpenses array as the call leaves it (filter() copies, sort() sorts the copy)
handlePieClick(expenses, detail, name) ==
    IF name = "" THEN [detailModalData |-> detail, filteredExpenses |-> expenses]
    ELSE LET matching == SelectSeq(expenses, LAMBDA e : ResolveCategory(e.category) = name)
             sorted   == Items(SortKeyed([i \in 1..Len(matching) |->
                             [key |-> 0 - matching[i].amount, item |-> matching[i]]]))
         IN  [detailModalData  |-> [open |-> TRUE, category |-> name, transactions |-> sorted],
              filteredExpenses |-> expenses]

\* onClick of the pie, line 509
PieClick(name) ==
    LET r == handlePieClick(filteredExpenses, detailModalData, name)
    IN  /\ detailModalData' = r.detailModalData
        /\ filteredExpenses' = r.filteredExpenses
        /\ UNCHANGED <<state, selectedMonth, now, tz, allExpenses, monthOptions,
                       totalIncomeForMonth, pieChartData, trendData, budgetComparisonData,
                       panelVars>>

\* onClose of the modal, line 555
CloseDetail ==
    /\ detailModalData.open
    /\ detailModalData' = NoDetail
    /\ UNCHANGED <<state, selectedMonth, now, tz, memoVars, panelVars>>

----------------------------------------------------------------------------
(* Inputs.                                                                 *)

At(y, m, d, h) == [y |-> y, m |-> m, d |-> d, h |-> h]

\* Instants of the ledger entries: the last hour of a leap day, the first
\* hours of the day after, the end of the year before.
T1 == At(2024, 2, 29, 23)
T2 == At(2024, 3, 1, 2)
T3 == At(2023, 12, 31, 20)

\* Clock and local offset of the derivation runs: every month of a leap year,
\* February of a common and of a century year, and two callers away from UTC.
DeriveClocks ==
    {[now |-> At(2024, m, 15, 12), tz |-> 0] : m \in 1..12}
    \cup {[now |-> At(2023, 2, 15, 12), tz |-> 0], [now |-> At(2100, 2, 15, 12), tz |-> 0],
          [now |-> At(2023, 12, 31, 21), tz |-> 7], [now |-> At(2024, 3, 1, 3), tz |-> 0 - 5]}

DeriveBatches ==
    {<<Txn("remove", T1, 100, "Makan")>>,
     <<Txn("remove", T2, 250, "")>>,
     <<Txn("add", T1, 400, "Gaji"), Txn("remove", T3, 250, "Makan")>>}

DeriveFund ==
    {[type |-> "add", timestamp |-> T1, amount |-> 1000],
     [type |-> "add", timestamp |-> T3, amount |-> 400],
     [type |-> "remove", timestamp |-> T2, amount |-> 100]}

DeriveBudgets == {[name |-> "Makan", total |-> 500], [name |-> "Lain-lain", total |-> 300]}

DeriveSpend ==
    {[type |-> "remove", timestamp |-> T1, amount |-> 100],
     [type |-> "add", timestamp |-> T3, amount |-> 250]}

DeriveDaily ==
    {[timestamp |-> T1, amount |-> 100, sourceCategory |-> ""],
     [timestamp |-> T2, amount |-> 400, sourceCategory |-> "Makan"],
     [timestamp |-> T3, amount |-> 250, sourceCategory |-> "Harian"]}

\* Clock and local offset of the component runs: the tenth day of a 30-day
\* month seen from UTC, and its last evening seen from UTC+7 (locally 1 May).
TA == At(2024, 4, 5, 9)
TB == At(2024, 3, 31, 20)

MountClocks ==
    {[now |-> At(2024, 4, 10, 12), tz |-> 0], [now |-> At(2024, 4, 30, 20), tz |-> 7]}

MountFund  == {[type |-> "add", timestamp |-> TA, amount |-> 1000000]}

MountDaily ==
    {[timestamp |-> TA, amount |-> 300000, sourceCategory |-> ""]}

\* Clocks of the detail specification: one local offset east, one west
DetailClocks == {[now |-> At(2023, 12, 31, 21), tz |-> 7], [now |-> At(2024, 3, 1, 3), tz |-> 0 - 5]}

\* Names handed to handlePieClick besides the sectors of the chart: no name,
\* and a category without any record
DetailNames == {"", "Sewa"}

MountBudgets == {[name |-> "Makan", total |-> 500000]}

----------------------------------------------------------------------------
(* Specifications.                                                         *)

\* The state right after the first render for props st (line 139-259), the
\* panels as useState initialises them.
FirstRender(st, clock) ==
    LET month == IsoMonth(clock.now)
        v     == View(st, month, clock.now, clock.tz)
    IN  /\ now = clock.now
        /\ tz = clock.tz
        /\ state = st
        /\ selectedMonth = month
        /\ allExpenses = v.allExpenses
        /\ monthOptions = v.monthOptions
        /\ filteredExpenses = v.filteredExpenses
        /\ totalIncomeForMonth = v.totalIncomeForMonth
        /\ pieChartData = v.pieChartData
        /\ trendData = v.trendData
        /\ budgetComparisonData = v.budgetComparisonData
        /\ detailModalData = NoDetail

\* The component mounted on an empty application state: first render, then
\* the four effects.
Init ==
    \E clock \in MountClocks :
        LET month == IsoMonth(clock.now)
            v     == View(EmptyState, month, clock.now, clock.tz)
            r     == RunEffects(BlankPanel, BlankPanel, BlankPanel, BlankPanel,
                                v, month, clock.now, clock.tz)
        IN  /\ FirstRender(EmptyState, clock)
            /\ trendPanel = r.trend
            /\ budgetPanel = r.budget
            /\ piePanel = r.pie
            /\ forecastPanel = r.forecast
            /\ forecastBranch = r.branch
            /\ pending = SeqToBag(r.calls)

PropsChanged ==
    /\ Size(state) < MaxEntries
    /\ \/ \E e \in MountFund : FundEntry(e, TRUE)
       \/ \E e \in MountDaily : DailyExpense(e, TRUE)
       \/ \E b \in MountBudgets : BudgetAdded(b.name, b.total, TRUE)

PeriodSelected == \E m \in {monthOptions[i] : i \in 1..Len(monthOptions)} : SelectMonth(m, TRUE)

CallResolved == \E c \in BagToSet(pending) : Resolve(c)

CallRejected == \E c \in BagToSet(pending) : Reject(c)

Next == PropsChanged \/ PeriodSelected \/ CallResolved \/ CallRejected

Spec == Init /\ [][Next]_vars

\* The derivation layer on its own: the memos of lines 162-259 applied to
\* application states built entry by entry; the commentary effects are left out.
InitDerive ==
    \E clock \in DeriveClocks :
        /\ FirstRender(EmptyState, clock)
        /\ trendPanel = BlankPanel
        /\ budgetPanel = BlankPanel
        /\ piePanel = BlankPanel
        /\ forecastPanel = BlankPanel
        /\ forecastBranch = "unmounted"
        /\ pending = EmptyBag

DeriveArchive == \E b \in DeriveBatches : Size(state) + Len(b) <= MaxRecords /\ ArchiveBatch(b, FALSE)

DeriveFundEntry == \E e \in DeriveFund : Size(state) < MaxRecords /\ FundEntry(e, FALSE)

DeriveBudget == \E b \in DeriveBudgets : Size(state) < MaxRecords /\ BudgetAdded(b.name, b.total, FALSE)

DeriveSpending ==
    \E i \in 1..Len(state.budgets), e \in DeriveSpend :
        Size(state) < MaxRecords /\ BudgetSpend(i, e, FALSE)

DeriveDailyExpense == \E e \in DeriveDaily : Size(state) < MaxRecords /\ DailyExpense(e, FALSE)

DerivePeriod == \E m \in {monthOptions[i] : i \in 1..Len(monthOptions)} : SelectMonth(m, FALSE)

NextDerive ==
    \/ DeriveArchive \/ DeriveFundEntry \/ DeriveBudget
    \/ DeriveSpending \/ DeriveDailyExpense \/ DerivePeriod

SpecDerive == InitDerive /\ [][NextDerive]_vars

\* The derivation layer with the detail modal. The modal is an overlay over
\* the whole page (line 107, 'fixed inset-0') and a click on it closes it, so
\* while it is open closing it is the only step.
InitDetail ==
    \E clock \in DetailClocks :
        /\ FirstRender(EmptyState, clock)
        /\ trendPanel = BlankPanel
        /\ budgetPanel = BlankPanel
        /\ piePanel = BlankPanel
        /\ forecastPanel = BlankPanel
        /\ forecastBranch = "unmounted"
        /\ pending = EmptyBag

DetailRequested ==
    /\ ~detailModalData.open
    /\ \E name \in {pieChartData[i].name : i \in 1..Len(pieChartData)} \cup DetailNames :
          PieClick(name)

DetailClosed == CloseDetail

DetailInputs == ~detailModalData.open /\ NextDerive

NextDetail == DetailInputs \/ DetailRequested \/ DetailClosed

SpecDetail == InitDetail /\ [][NextDetail]_vars

----------------------------------------------------------------------------
(* Properties of the derivation layer, checked under SpecDerive.           *)

Indices(s) == 1..Len(s)

\* C3: the totals of the categorical aggregator sum to the sum of the amounts
\* of the filtered expenses, each category of the filtered expenses appears
\* exactly once, the pairs are ordered by total descending, and an empty
\* filtered input yields an empty sequence.
C3_PieConservesTotals ==
    LET CategoryOf(e) == IF e.category = "" THEN "Lain-lain" ELSE e.category
    IN  /\ SumAmount([i \in Indices(pieChartData) |-> [amount |-> pieChartData[i].value]])
             = SumAmount(filteredExpenses)
        /\ \A i, j \in Indices(pieChartData) :
              pieChartData[i].name = pieChartData[j].name => i = j
        /\ {pieChartData[i].name : i \in Indices(pieChartData)}
             = {CategoryOf(filteredExpenses[i]) : i \in Indices(filteredExpenses)}
        /\ \A i, j \in Indices(pieChartData) :
              i < j => pieChartData[i].value >= pieChartData[j].value
        /\ filteredExpenses = <<>> => pieChartData = <<>>

\* A filtered ledger with two records of one category and a smaller second category.
C3_Witness ==
    /\ Len(pieChartData) = 2
    /\ Len(filteredExpenses) = 3
    /\ pieChartData[1].value > pieChartData[2].value

\* C4: for a concrete month the daily trend has exactly one entry per calendar
\* day of that month, numbered 1..daysInMonth in ascending order.
C4_CalendarDays(month) ==
    LET y == month \div 100
        m == month % 100
        leap == (y % 4 = 0 /\ y % 100 # 0) \/ y % 400 = 0
    IN  IF m = 2 /\ leap THEN 29
        ELSE <<31, 28, 31, 30, 31, 30, 31, 31, 30, 31, 30, 31>>[m]

C4_TrendCoversMonth ==
    selectedMonth # all =>
        /\ Len(trendData) = C4_CalendarDays(selectedMonth)
        /\ \A i \in Indices(trendData) : trendData[i].day = i

\* February of a leap year, with an expense in it, seen before the month is over.
C4_Witness ==
    /\ selectedMonth = 202402
    /\ Len(trendData) = 29
    /\ \E i \in Indices(trendData) : trendData[i].total > 0
    /\ now.d < 29

\* C5: for a concrete month the total of trend entry d is the sum of the
\* amounts of the filtered expenses whose UTC calendar day is d (0 when there
\* is none), so the trend totals sum to the total of the filtered expenses,
\* whatever the caller's local UTC offset.
C5_TrendByUtcDay ==
    selectedMonth # all =>
        /\ \A d \in Indices(trendData) :
              trendData[d].total =
                  SumAmount(SelectSeq(filteredExpenses,
                      LAMBDA e : e.timestamp.y * 10000 + e.timestamp.m * 100 + e.timestamp.d
                                   = selectedMonth * 100 + d))
        /\ SumAmount([d \in Indices(trendData) |-> [amount |-> trendData[d].total]])
             = SumAmount(filteredExpenses)

\* C6: the budget comparator emits one tuple per budget, in the budget list's
\* order, with allocated = totalBudget and actual = the sum of the filtered
\* expenses whose category is the budget's name (0 when there is none).
C6_BudgetLeftJoin ==
    LET CategoryOf(e) == IF e.category = "" THEN "Lain-lain" ELSE e.category
    IN  /\ Len(budgetComparisonData) = Len(state.budgets)
        /\ \A i \in Indices(state.budgets) :
              /\ budgetComparisonData[i].name = state.budgets[i].name
              /\ budgetComparisonData[i].Dianggarkan = state.budgets[i].totalBudget
              /\ budgetComparisonData[i].Terpakai =
                    SumAmount(SelectSeq(filteredExpenses,
                        LAMBDA e : CategoryOf(e) = state.budgets[i].name))

\* Two budgets, the first without any spend in the period, the second with some.
C6_Witness ==
    /\ Len(budgetComparisonData) = 2
    /\ budgetComparisonData[1].Terpakai = 0
    /\ budgetComparisonData[2].Terpakai > 0

\* C9: period 'all' yields an empty trend series and a total income of 0,
\* whatever the ledger and fund history; for a concrete month the total income
\* is the sum of the credit-typed fund-history entries of that year-month.
C9_AllPeriodAndIncome ==
    IF selectedMonth = all
    THEN trendData = <<>> /\ totalIncomeForMonth = 0
    ELSE totalIncomeForMonth =
            SumAmount(SelectSeq(state.fundHistory,
                LAMBDA t : t.type = "add"
                           /\ t.timestamp.y * 100 + t.timestamp.m = selectedMonth))

\* Period 'all' selected while the fund history holds a credit entry and the
\* ledger an expense.
C9_Witness ==
    /\ selectedMonth = all
    /\ \E i \in Indices(state.fundHistory) : state.fundHistory[i].type = "add"
    /\ allExpenses # <<>>

\* C10: the available periods are the 'all' sentinel followed by the distinct
\* year-month keys of the ledger's timestamps, most recent first; for an empty
\* ledger, by the current real-world year-month alone.
C10_AvailablePeriods ==
    LET keys == {allExpenses[i].timestamp.y * 100 + allExpenses[i].timestamp.m
                    : i \in Indices(allExpenses)}
        rest == Tail(monthOptions)
    IN  /\ Len(monthOptions) >= 2
        /\ monthOptions[1] = all
        /\ \A i, j \in Indices(rest) : i < j => rest[i] > rest[j]
        /\ IF allExpenses = <<>>
           THEN rest = <<now.y * 100 + now.m>>
           ELSE {rest[i] : i \in Indices(rest)} = keys

\* Three ledger records in two distinct months.
C10_Witness ==
    /\ Len(allExpenses) = 3
    /\ Len(monthOptions) = 3

\* UTC year-month of a record, as the period keys encode it
C11_UtcMonthOf(e) == e.timestamp.y * 100 + e.timestamp.m

\* C11: the filter returns the whole ledger for period 'all'; for a concrete
\* month it returns, in ledger order, exactly the records whose UTC year-month
\* is that month; and every record of the ledger is returned by the filter of
\* exactly one concrete month.
C11_FilterByPeriod ==
    LET concrete == {monthOptions[k] : k \in 2..Len(monthOptions)}
    IN  /\ selectedMonth = all => filteredExpenses = allExpenses
        /\ selectedMonth # all =>
              filteredExpenses =
                  SelectSeq(allExpenses, LAMBDA e : C11_UtcMonthOf(e) = selectedMonth)
        /\ \A m \in concrete :
              FilterExpenses(allExpenses, m) =
                  SelectSeq(allExpenses, LAMBDA e : C11_UtcMonthOf(e) = m)
        /\ \A i \in Indices(allExpenses) :
              Cardinality({m \in concrete :
                  \E j \in Indices(FilterExpenses(allExpenses, m)) :
                      FilterExpenses(allExpenses, m)[j] = allExpenses[i]}) = 1

\* A concrete month selected that holds some but not all of a ledger whose
\* records fall in two months of the same year.
C11_Witness ==
    /\ selectedMonth # all
    /\ filteredExpenses # <<>>
    /\ Len(filteredExpenses) < Len(allExpenses)
    /\ \E i, j \in Indices(allExpenses) :
          /\ allExpenses[i].timestamp.y = allExpenses[j].timestamp.y
          /\ allExpenses[i].timestamp.m # allExpenses[j].timestamp.m

\* Number of debit-typed records in a sequence of raw entries
C12_Debits(s) == Len(SelectSeq(s, LAMBDA t : t.type = "remove"))

\* C12 (as stated): after normalization every record of the unified ledger
\* has a non-empty category, whatever the application state.
C12_LedgerCategoryNonEmpty ==
    \A i \in Indices(allExpenses) : allExpenses[i].category # ""

\* C12 (amended): in the ledger the fund-history records carry the fixed
\* general-expense category and the daily expenses their source category or
\* the 'Harian' fallback, so these are never empty; an archived transaction
\* keeps its raw category, empty included; the empty category is resolved to
\* 'Lain-lain' where the ledger is consumed, so that no category of the
\* categorical aggregate is empty.
C12_CategoryResolvedAtUse ==
    LET nArchive == SumLen([a \in Indices(state.archives) |->
                        SelectSeq(state.archives[a], LAMBDA t : t.type = "remove")])
        nFund    == C12_Debits(state.fundHistory)
        nDaily   == Len(state.dailyExpenses)
        first    == Len(allExpenses) - nDaily
        archived == UNION {{state.archives[a][j] : j \in Indices(state.archives[a])}
                              : a \in Indices(state.archives)}
    IN  /\ \A i \in (nArchive + 1)..(nArchive + nFund) :
              allExpenses[i].category = "Pengeluaran Umum"
        /\ \A k \in 1..nDaily :
              /\ allExpenses[first + k].category # ""
              /\ state.dailyExpenses[k].sourceCategory = ""
                    => allExpenses[first + k].category = "Harian"
        /\ {allExpenses[i].category : i \in 1..nArchive}
             = {t.category : t \in {x \in archived : x.type = "remove"}}
        /\ \A i \in Indices(pieChartData) : pieChartData[i].name # ""

\* An archived debit without category and a daily expense without source
\* category in the ledger, the former shown under 'Lain-lain' in the aggregate.
C12_Witness ==
    /\ \E i \in Indices(allExpenses) : allExpenses[i].category = ""
    /\ \E k \in Indices(state.dailyExpenses) : state.dailyExpenses[k].sourceCategory = ""
    /\ \E i \in Indices(pieChartData) : pieChartData[i].name = "Lain-lain"

\* The records of a sequence as a bag, one copy per position
Multiset(s) ==
    LET elems == {s[i] : i \in Indices(s)}
    IN  [e \in elems |-> Cardinality({i \in Indices(s) : s[i] = e})]

\* C13: the ledger holds exactly the debit-typed archived transactions with
\* their own category, the debit-typed fund entries under the fixed
\* general-expense category (no credit-typed fund entry), every history entry
\* of every budget under the budget's name and typed debit whatever its raw
\* type, and every daily expense typed debit under its source category or
\* 'Harian'; its length is the sum of these four counts.
C13_LedgerContents ==
    LET Record(type, t, category) ==
            [type |-> type, timestamp |-> t.timestamp, amount |-> t.amount,
             category |-> category]
        archived == [a \in Indices(state.archives) |->
                        LET debits == SelectSeq(state.archives[a], LAMBDA t : t.type = "remove")
                        IN  [j \in Indices(debits) |->
                                Record("remove", debits[j], debits[j].category)]]
        fundDebits == SelectSeq(state.fundHistory, LAMBDA t : t.type = "remove")
        fund     == [j \in Indices(fundDebits) |->
                        Record("remove", fundDebits[j], "Pengeluaran Umum")]
        budgeted == [b \in Indices(state.budgets) |->
                        [h \in Indices(state.budgets[b].history) |->
                            Record("remove", state.budgets[b].history[h],
                                   state.budgets[b].name)]]
        daily    == [k \in Indices(state.dailyExpenses) |->
                        Record("remove", state.dailyExpenses[k],
                               IF state.dailyExpenses[k].sourceCategory = "" THEN "Harian"
                               ELSE state.dailyExpenses[k].sourceCategory)]
        AllOf(ss) == IF ss = <<>> THEN EmptyBag
                     ELSE LET Sum[n \in 0..Len(ss)] ==
                                  IF n = 0 THEN EmptyBag ELSE Sum[n - 1] (+) Multiset(ss[n])
                          IN  Sum[Len(ss)]
    IN  /\ Multiset(allExpenses)
             = AllOf(archived) (+) Multiset(fund) (+) AllOf(budgeted) (+) Multiset(daily)
        /\ Len(allExpenses)
             = SumLen(archived) + Len(fund) + SumLen(budgeted) + Len(daily)
        /\ \A i \in Indices(allExpenses) : allExpenses[i].type = "remove"

\* A budget history entry whose raw type is 'add' is in the ledger as a debit
\* under the budget's name, next to a credit-typed fund entry that is not.
C13_Witness ==
    /\ \E b \in Indices(state.budgets) : \E h \in Indices(state.budgets[b].history) :
          /\ state.budgets[b].history[h].type = "add"
          /\ \E i \in Indices(allExpenses) :
                /\ allExpenses[i].category = state.budgets[b].name
                /\ allExpenses[i].timestamp = state.budgets[b].history[h].timestamp
    /\ \E j \in Indices(state.fundHistory) : state.fundHistory[j].type = "add"
    /\ Len(allExpenses) = 1

\* C15: after any sequence of changes of the ledger and selections of a
\* period, the selected period is one of the available periods.
C15_SelectedIsAvailable ==
    \E i \in Indices(monthOptions) : monthOptions[i] = selectedMonth

----------------------------------------------------------------------------
(* Properties of the detail query, checked under SpecDetail.               *)

\* C14: the click-to-detail query for a category name returns exactly the
\* filtered records whose fallback-resolved category is that name, sorted by
\* amount descending; their amounts sum to the aggregator's total for the
\* category; a category without records yields an empty list; and the
\* filtered ledger is left as it was.
C14_DetailQuery ==
    [][(detailModalData' # detailModalData /\ detailModalData'.open) =>
          LET detail == detailModalData'
              CategoryOf(e) == IF e.category = "" THEN "Lain-lain" ELSE e.category
              matching == SelectSeq(filteredExpenses,
                                    LAMBDA e : CategoryOf(e) = detail.category)
              sectors == {i \in Indices(pieChartData) :
                              pieChartData[i].name = detail.category}
          IN  /\ Multiset(detail.transactions) = Multiset(matching)
              /\ \A i, j \in Indices(detail.transactions) :
                    i < j => detail.transactions[i].amount >= detail.transactions[j].amount
              /\ \A i \in sectors : SumAmount(detail.transactions) = pieChartData[i].value
              /\ sectors = {} => detail.transactions = <<>>
              /\ filteredExpenses' = filteredExpenses]_vars

\* The modal shows two records of one category, the larger first, taken from
\* three filtered records that hold them in the other order.
C14_Witness ==
    /\ detailModalData.open
    /\ Len(detailModalData.transactions) = 2
    /\ detailModalData.transactions[1].amount > detailModalData.transactions[2].amount
    /\ Len(filteredExpenses) = 3
    /\ \E i, j \in Indices(filteredExpenses) :
          /\ i < j
          /\ filteredExpenses[i] = detailModalData.transactions[2]
          /\ filteredExpenses[j] = detailModalData.transactions[1]

----------------------------------------------------------------------------
(* Properties of the component with its commentary calls, checked under Spec. *)

PanelOf(p) ==
    CASE p = "trend" -> trendPanel
      [] p = "budget" -> budgetPanel
      [] p = "pie" -> piePanel
      [] p = "forecast" -> forecastPanel

\* The step completes (resolves or rejects) the in-flight call c.
Completes(c) == c \in BagToSet(pending) /\ pending' = pending (-) SetToBag({c})

\* The step is a change of props.state or of the selected period.
InputsChanged == state' # state \/ selectedMonth' # selectedMonth

\* The calls the effects issue for the inputs as they are now.
CallsForCurrentInputs ==
    LET v == [allExpenses |-> allExpenses, monthOptions |-> monthOptions,
              filteredExpenses |-> filteredExpenses,
              totalIncomeForMonth |-> totalIncomeForMonth,
              pieChartData |-> pieChartData, trendData |-> trendData,
              budgetComparisonData |-> budgetComparisonData]
        r == RunEffects(trendPanel, budgetPanel, piePanel, forecastPanel,
                        v, selectedMonth, now, tz)
    IN  {r.calls[i] : i \in Indices(r.calls)}

\* C1: the latest request's result wins: the completion (response or failure)
\* of a call issued for inputs that are obsolete by now is discarded, it
\* changes neither the text or message nor the error of its panel.
C1_StaleResultDiscarded ==
    [][\A c \in BagToSet(pending) :
          (Completes(c) /\ c \notin CallsForCurrentInputs) =>
              /\ PanelOf(c.panel)'.analysis = PanelOf(c.panel).analysis
              /\ PanelOf(c.panel)'.error = PanelOf(c.panel).error]_vars

\* The step completes a call of panel p and leaves p with its error set and
\* its text as it was: the call failed.
FailedStep(p) ==
    /\ \E c \in BagToSet(pending) : c.panel = p /\ Completes(c)
    /\ PanelOf(p)'.error # ""
    /\ PanelOf(p)'.analysis = PanelOf(p).analysis

\* C2: a failed call sets the error of its own panel only: no other panel's
\* text, error or loading flag changes, and the numeric aggregates stay as
\* they were, equal to what the derivations compute from the inputs.
C2_FailureIsolated ==
    [][\A p \in Panels :
          FailedStep(p) =>
              /\ \A q \in Panels \ {p} : PanelOf(q)' = PanelOf(q)
              /\ <<state, selectedMonth>>' = <<state, selectedMonth>>
              /\ memoVars' = memoVars
              /\ LET v == View(state', selectedMonth', now', tz')
                 IN  /\ pieChartData' = v.pieChartData
                     /\ trendData' = v.trendData
                     /\ budgetComparisonData' = v.budgetComparisonData]_vars

\* The pie call has failed while the trend panel shows its text and the
\* aggregates hold data.
C2_Witness ==
    /\ piePanel.error # ""
    /\ trendPanel.error = ""
    /\ trendPanel.analysis.kind = "text"
    /\ pieChartData # <<>>

\* The forecast state the inputs call for, in the order of precedence of C7.
C7_Class ==
    LET today == LocalTime(now, tz)
    IN  IF selectedMonth = all THEN "allTime"
        ELSE IF selectedMonth # today.y * 100 + today.m THEN "notCurrentMonth"
        ELSE IF totalIncomeForMonth = 0 THEN "noIncome"
        ELSE IF SumAmount(filteredExpenses) = 0 THEN "ZeroSpend"
        ELSE "Computed"

ForecastCallsIssued == CountInFlight(pending', "forecast") - CountInFlight(pending, "forecast")

\* C7: the forecast engine is in exactly one of five states, decided in the
\* precedence allTime, notCurrentMonth, noIncome, ZeroSpend, Computed; every
\* state but Computed puts out its fixed output (null for allTime) without an
\* external call and without setting the error.
C7_ForecastStates ==
    /\ [](forecastBranch = C7_Class)
    /\ [][InputsChanged =>
            LET cls == C7_Class'
                out == forecastPanel'.analysis
            IN  /\ cls = "allTime" => out.kind = "null"
                /\ cls = "notCurrentMonth" =>
                      out.kind = "msg" /\ out.msg = "Prediksi hanya tersedia untuk bulan berjalan."
                /\ cls = "noIncome" =>
                      out.kind = "msg" /\ out.msg = "Tambahkan pemasukan bulan ini untuk melihat prediksi."
                /\ cls = "ZeroSpend" =>
                      /\ out.kind = "msg"
                      /\ out.msg = "Belum ada pengeluaran. Anda di jalur yang tepat untuk berhemat!"
                      /\ forecastPanel'.error = ""
                /\ cls # "Computed" =>
                      /\ ForecastCallsIssued = 0
                      /\ forecastPanel'.error # "" => forecastPanel.error # ""
                /\ cls = "Computed" => ForecastCallsIssued = 1]_vars

\* Current month, income recorded, nothing spent: the zero-spend message.
C7_Witness ==
    /\ forecastBranch = "ZeroSpend"
    /\ totalIncomeForMonth > 0
    /\ forecastPanel.analysis.kind = "msg"

\* The entry of a forecast prompt named n, 0 - 1 when the prompt has none.
PromptValue(payload, n) ==
    IF \E i \in Indices(payload) : payload[i].name = n
    THEN (CHOOSE e \in {payload[i] : i \in Indices(payload)} : e.name = n).value
    ELSE 0 - 1

\* C8 as claimed: in the Computed state the engine hands the collaborator
\* projectedTotal = totalSpendSoFar / daysElapsed * daysInMonth and
\* delta = totalIncome - projectedTotal.
C8_EngineOutputsProjection ==
    \A c \in InFlight("forecast") :
        LET income    == PromptValue(c.payload, "totalIncomeForMonth")
            spend     == PromptValue(c.payload, "totalExpensesSoFar")
            elapsed   == PromptValue(c.payload, "daysPassed")
            days      == PromptValue(c.payload, "totalDaysInMonth")
            projected == (spend * days) \div elapsed
        IN  /\ \E i \in Indices(c.payload) :
                  c.payload[i].name = "projectedTotal" /\ c.payload[i].value = projected
            /\ \E i \in Indices(c.payload) :
                  c.payload[i].name = "delta" /\ c.payload[i].value = income - projected

\* C8 as amended: in the Computed state the engine hands the collaborator the
\* four raw numbers total income, total spend so far, days elapsed (the local
\* day of the month of now, at least 1) and days in the selected month, and
\* nothing else; rate, projection and delta are left to the collaborator.
C8_RawNumbersPassed ==
    [][(InputsChanged /\ C7_Class' = "Computed") =>
          LET today == LocalTime(now', tz')
              c == [panel |-> "forecast",
                    payload |-> <<[name |-> "totalIncomeForMonth", value |-> totalIncomeForMonth'],
                                  [name |-> "totalExpensesSoFar",
                                   value |-> SumAmount(filteredExpenses')],
                                  [name |-> "daysPassed", value |-> today.d],
                                  [name |-> "totalDaysInMonth",
                                   value |-> C4_CalendarDays(selectedMonth')]>>]
          IN  /\ today.d >= 1
              /\ CopiesIn(c, pending') = CopiesIn(c, pending) + 1
              /\ ForecastCallsIssued = 1]_vars

\* Income 1,000,000, spend 300,000, day 10 of a 30-day month: the call in flight.
C8_Witness ==
    [panel |-> "forecast",
     payload |-> <<[name |-> "totalIncomeForMonth", value |-> 1000000],
                   [name |-> "totalExpensesSoFar", value |-> 300000],
                   [name |-> "daysPassed", value |-> 10],
                   [name |-> "totalDaysInMonth", value |-> 30]>>] \in BagToSet(pending)

\* C16: for each panel the loading flag is true whenever a call of the panel
\* for the newest inputs is in flight, so the completion of a superseded call
\* does not clear it, and it is false once no call of the panel is outstanding.
C16_LoadingTracksCalls ==
    \A p \in Panels :
        /\ (\E c \in BagToSet(pending) : c.panel = p /\ c \in CallsForCurrentInputs)
              => PanelOf(p).isFetching
        /\ CountInFlight(pending, p) = 0 => ~PanelOf(p).isFetching

\* C17: when a change of the inputs makes a panel's derivation take a path
\* without an external call, the panel's error is clear afterwards, so that
\* the error is set only if the latest derivation was a call that failed.
C17_NoCallPathClearsError ==
    [][\A p \in Panels :
          (InputsChanged /\ CountInFlight(pending', p) = CountInFlight(pending, p))
              => PanelOf(p)'.error = ""]_vars

====
